---- MODULE Spec2Model ----
(***************************************************************************)
(* gobib: the three-stage TeX -> BibTeX pipeline of pkg/gobib/api.go.      *)
(*                                                                         *)
(* A Go string is modelled as a sequence of chunks.  A chunk is either one *)
(* character or one of the literals the code searches for, cut so that a   *)
(* brace is always the last character of its chunk:                        *)
(*   "\\bibitem{"   "\\end{" "thebibliography" "}"   "\\url{"              *)
(* A character outside ASCII is one chunk named by its code point, such as *)
(* "U+00E9" (two bytes in UTF-8).                                          *)
(* strings.Contains/Index/LastIndex on these literals become searches for  *)
(* the chunk (or the run of chunks).                                       *)
(***************************************************************************)
EXTENDS Integers, Sequences, FiniteSets, TLC

----------------------------------------------------------------------------
(* Program constants *)

BibItem == "\\bibitem{"

EndBibliography == <<"\\end{", "thebibliography", "}">>

URLToken == "\\url{"

ErrBibUnclosed == "ErrBibUnclosed"

ErrBibEmpty == "ErrBibEmpty"

ErrSyntax == "ErrSyntax"

\* an error of the input stream other than io.EOF
ErrIO == "ErrIO"

\* an error returned by Config.Output.Write
ErrWrite == "ErrWrite"

\* capacity of stage1OutChannel and of stage2OutChannel
ChanCap == 10

\* capacity of okChannel
OkCap == 1

----------------------------------------------------------------------------
(* Bounds *)

\* longest input, in lines, of the specification Spec
MaxLines == 3

\* largest number of bibitem lines of the specification SpecLong
MaxItems == 11

\* largest number of comma-separated tokens of a body of SpecParser
MaxTokens == 4

\* longest line, in chunks, extractKey is called on in SpecCalls
MaxKeyLine == 3

\* longest field, in bytes, extractYear is called on in SpecCalls
MaxField == 7

\* longest text, in chunks, extractURL is called on in SpecCalls
MaxURLText == 4

----------------------------------------------------------------------------
(* Strings *)

Digits == <<"0", "1", "2", "3", "4", "5", "6", "7", "8", "9">>

IsSpace(c) == c \in {" ", "\t"}

IsDigit(c) == \E d \in 1..10 : Digits[d] = c

DigitVal(c) == (CHOOSE d \in 1..10 : Digits[d] = c) - 1

\* the character outside ASCII the texts of the model hold: U+00E9, in UTF-8
\* the two bytes C3 A9
NonASCII == "U+00E9"

\* number of bytes of a chunk
ChunkLen(c) ==
  CASE c = BibItem -> 9
    [] c = "\\end{" -> 5
    [] c = "thebibliography" -> 15
    [] c = URLToken -> 5
    [] c \in {NonASCII, "U+00C3", "U+00A9"} -> 2
    [] OTHER -> 1

RECURSIVE ByteLen(_)
\* len(s)
ByteLen(s) == IF s = <<>> THEN 0 ELSE ChunkLen(Head(s)) + ByteLen(Tail(s))

\* the chunks whose last byte is '{'
HasOpenBrace(c) == c \in {BibItem, "\\end{", URLToken, "{"}

\* strings.Contains(line, BibItem)
ContainsBibItem(line) == \E i \in 1..Len(line) : line[i] = BibItem

\* strings.Contains(line, EndBibliography)
ContainsEnd(line) ==
  \E i \in 1..Len(line) :
    /\ i + 2 <= Len(line)
    /\ SubSeq(line, i, i + 2) = EndBibliography

\* the least element of a set of positions, 0 when there is none (the -1 of
\* strings.Index)
Lowest(S) == IF S = {} THEN 0 ELSE CHOOSE i \in S : \A j \in S : i <= j

\* the greatest element of a set of positions, 0 when there is none (the -1
\* of strings.LastIndex)
Highest(S) == IF S = {} THEN 0 ELSE CHOOSE i \in S : \A j \in S : j <= i

\* s[lo..hi], empty when there is no lo
Cut(s, lo, hi) == IF lo = 0 THEN <<>> ELSE SubSeq(s, lo, hi)

NonSpaceIdx(s) == {i \in 1..Len(s) : ~IsSpace(s[i])}

\* strings.TrimSpace
TrimSpace(s) == Cut(s, Lowest(NonSpaceIdx(s)), Highest(NonSpaceIdx(s)))

RECURSIVE Split(_, _)
\* the token before the first separator (at i), then the tokens of the rest
SplitAt(s, sep, i) ==
  IF i = 0 THEN <<s>>
  ELSE <<SubSeq(s, 1, i - 1)>> \o Split(SubSeq(s, i + 1, Len(s)), sep)

\* strings.Split(s, sep) for a one-byte separator: always at least one token
Split(s, sep) == SplitAt(s, sep, Lowest({i \in 1..Len(s) : s[i] = sep}))

RECURSIVE Join(_, _)
\* strings.Join(elems, sep)
Join(elems, sep) ==
  IF elems = <<>> THEN <<>>
  ELSE IF Len(elems) = 1 THEN elems[1]
  ELSE elems[1] \o sep \o Join(Tail(elems), sep)

RECURSIVE IntToStr(_)
\* fmt's %d of a non-negative integer
IntToStr(n) ==
  IF n < 10 THEN <<Digits[n + 1]>>
  ELSE IntToStr(n \div 10) \o <<Digits[(n % 10) + 1]>>

----------------------------------------------------------------------------
(* Field extractors *)

\* strings.LastIndex(line, "}")
LastClose(line) == Highest({i \in 1..Len(line) : line[i] = "}"})

\* strings.Index(line, "{"): the chunk whose last byte is the first '{'
FirstOpen(line) == Lowest({i \in 1..Len(line) : HasOpenBrace(line[i])})

\* line[startIndex+1 : endIndex] and the checks before it; "panic" is the
\* slice-bounds panic when the last '}' lies before the first '{'
KeySlice(line, startIndex, endIndex) ==
  IF endIndex = 0 THEN [key |-> <<>>, err |-> ErrSyntax]
  ELSE IF startIndex = 0 THEN [key |-> <<>>, err |-> ErrSyntax]
  ELSE IF endIndex < startIndex THEN [key |-> <<>>, err |-> "panic"]
  ELSE [key |-> SubSeq(line, startIndex + 1, endIndex - 1), err |-> "nil"]

\* extractKey: the text from after the first '{' to before the last '}'
extractKey(line) ==
  IF ~ContainsBibItem(line) THEN [key |-> <<>>, err |-> ErrSyntax]
  ELSE KeySlice(line, FirstOpen(line), LastClose(line))

\* string(line[i]) for each byte of the character c: string(b) of a byte b is
\* the UTF-8 text of the code point b, so a byte below 0x80 gives itself and
\* the bytes C3 and A9 of U+00E9 give the two characters U+00C3 and U+00A9
StringOfBytes(c) == IF c = NonASCII THEN <<"U+00C3", "U+00A9">> ELSE <<c>>

RECURSIVE ByteByByte(_)
\* url += string(line[i]) over the bytes of s
ByteByByte(s) ==
  IF s = <<>> THEN <<>> ELSE StringOfBytes(Head(s)) \o ByteByByte(Tail(s))

\* the bytes of rest up to its first '}' (at stop), all of it if there is none
UpToClose(rest, stop) ==
  ByteByByte(IF stop = 0 THEN rest ELSE SubSeq(rest, 1, stop - 1))

\* the loop of extractURL from startIndex+5 on
URLFrom(line, startIndex) ==
  IF startIndex = 0 THEN <<>>
  ELSE UpToClose(SubSeq(line, startIndex + 1, Len(line)),
                 Lowest({i \in 1..(Len(line) - startIndex) :
                           line[startIndex + i] = "}"}))

\* an extractURL that starts from the first "\url{"
extractURL_First(line) ==
  URLFrom(line, Lowest({i \in 1..Len(line) : line[i] = URLToken}))

\* extractURL: what follows the last "\url{" up to the next '}' (or the end)
extractURL(line) ==
  URLFrom(line, Highest({i \in 1..Len(line) : line[i] = URLToken}))

RECURSIVE DigitsVal(_)
DigitsVal(ds) ==
  IF ds = <<>> THEN 0
  ELSE DigitsVal(SubSeq(ds, 1, Len(ds) - 1)) * 10 + DigitVal(ds[Len(ds)])

\* the input of a scan after its leading spaces
SkipSpace(s) == Cut(s, Lowest(NonSpaceIdx(s)), Len(s))

\* the first wid bytes of s at most, stopping before its first non-digit
\* (at nd)
DigitRun(s, nd, wid) ==
  SubSeq(s, 1, IF nd = 0
               THEN (IF Len(s) > wid THEN wid ELSE Len(s))
               ELSE (IF nd - 1 > wid THEN wid ELSE nd - 1))

\* the digits a %4d reads at the head of s
LeadingDigits(s) ==
  DigitRun(s, Lowest({i \in 1..Len(s) : ~IsDigit(s[i])}), 4)

\* fmt.Sscanf(line, "%4d", &year): leading spaces are skipped, then at most
\* four digits are read; year stays 0 when there is no digit.  What follows
\* the digits is not looked at.  (No field of the model carries a sign.)
Sscanf4d(line) == DigitsVal(LeadingDigits(SkipSpace(line)))

\* if !(year != 0 && len(line) <= 6) { year = 0 }
YearIfShort(year, line) ==
  IF ~(year # 0 /\ ByteLen(line) <= 6) THEN 0 ELSE year

extractYear(line) == YearIfShort(Sscanf4d(line), line)

----------------------------------------------------------------------------
(* Entries *)

\* Config.DefaultVisited = nil
NoDate == <<>>

\* a key made of the title and the first author only
GenKey_NoYear(b) == b.Title \o <<"-">> \o b.Authors[1]

\* GenKey: fmt.Sprintf("%s-%d-%s", b.Title, b.Year, b.Authors[0]);
\* the caller has checked that b.Authors[0] exists
GenKey(b) == b.Title \o <<"-">> \o IntToStr(b.Year) \o <<"-">> \o b.Authors[1]

\* AuthorsToString
AuthorsToString(b) == Join(b.Authors, <<" and ">>)

\* a rendering that writes the url line of every entry
BasicUnclosedToString_URLAlways(b) ==
  <<"@online{">> \o b.Key \o <<",\n">>
  \o <<"\tauthor = \"">> \o AuthorsToString(b) \o <<"\",\n">>
  \o <<"\ttitle = \"">> \o b.Title \o <<"\",\n">>
  \o <<"\tyear = \"">> \o IntToStr(b.Year) \o <<"\",\n">>
  \o <<"\turl = \"">> \o b.URL \o <<"\",\n">>

\* BasicOnlineBibtexEntry.unclosedToString
BasicUnclosedToString(b) ==
  <<"@online{">> \o b.Key \o <<",\n">>
  \o <<"\tauthor = \"">> \o AuthorsToString(b) \o <<"\",\n">>
  \o <<"\ttitle = \"">> \o b.Title \o <<"\",\n">>
  \o <<"\tyear = \"">> \o IntToStr(b.Year) \o <<"\",\n">>
  \o (IF b.URL # <<>> THEN <<"\turl = \"">> \o b.URL \o <<"\",\n">> ELSE <<>>)

\* an entry rendered without its urldate line
unclosedToString_Basic(b) == BasicUnclosedToString(b)

\* AdvancedOnlineBibtexEntry.unclosedToString
unclosedToString(b) ==
  BasicUnclosedToString(b)
  \o (IF b.Visited # NoDate
      THEN <<"\turldate = \"">> \o IntToStr(b.Visited[1]) \o <<"-">>
           \o IntToStr(b.Visited[2]) \o <<"-">> \o IntToStr(b.Visited[3])
           \o <<"\",\n">>
      ELSE <<>>)

\* AdvancedOnlineBibtexEntry.String
String(b) == unclosedToString(b) \o <<"}">>

\* what writer hands to Output.Write for one entry
Block(b) == String(b) \o <<"\n\n">>

----------------------------------------------------------------------------
(* Parser: one iteration of the loop body, up to the send *)

\* a case 1 that takes the only token as an author
Case1_AsAuthor(tokens) ==
  [authors |-> <<tokens[1]>>, title |-> <<>>, year |-> 0]

\* case 1: the only token is the title
Case1(tokens) == [authors |-> <<>>, title |-> tokens[1], year |-> 0]

\* a case 2 that takes token 1 as the title even when a URL was found
Case2_TitleAlways(tokens, entryURL) ==
  [authors |-> <<tokens[1]>>, title |-> tokens[2], year |-> 0]

\* case 2: one author; token 1 is the title unless a URL was found
Case2(tokens, entryURL) ==
  [authors |-> <<tokens[1]>>,
   title |-> IF entryURL = <<>> THEN tokens[2] ELSE <<>>,
   year |-> 0]

\* a case 3 that never takes token 1 as a second author
Case3_OneAuthor(tokens, entryURL, entryYear) ==
  [authors |-> <<tokens[1]>>, title |-> tokens[2], year |-> entryYear]

\* case 3, entryYear read from the last token
Case3(tokens, entryURL, entryYear) ==
  IF entryURL = <<>> /\ entryYear = 0
  THEN [authors |-> <<tokens[1], tokens[2]>>,
        title |-> tokens[3], year |-> entryYear]
  ELSE [authors |-> <<tokens[1]>>,
        title |-> tokens[2], year |-> entryYear]

\* a search for the year that looks at the last token only
YearOrElse_LastOnly(y1, y2) == y1

\* entryYear = extractYear(tokens[tokenLen-1]);
\* if entryYear == 0 { entryYear = extractYear(tokens[tokenLen-2]) }
YearOrElse(y1, y2) == IF y1 = 0 THEN y2 ELSE y1

\* a default case whose indices do not move back for a URL
CaseDefault_NoURLShift(tokens, entryURL, entryYear) ==
  LET back == IF entryYear # 0 THEN 1 ELSE 0
  IN  [authors |-> SubSeq(tokens, 1, Len(tokens) - 1 - back),
       title |-> tokens[Len(tokens) - back], year |-> entryYear]

\* a default case whose indices move back two positions for a year
CaseDefault_YearBackTwo(tokens, entryURL, entryYear) ==
  LET back == (IF entryURL # <<>> THEN 1 ELSE 0)
              + (IF entryYear # 0 THEN 2 ELSE 0)
  IN  [authors |-> SubSeq(tokens, 1, Len(tokens) - 1 - back),
       title |-> tokens[Len(tokens) - back], year |-> entryYear]

\* default case, entryYear read from the last two tokens; back is how far
\* lastAuthorIndex and titleIndex (0-based, as in the code) have moved
CaseDefault(tokens, entryURL, entryYear) ==
  LET back == (IF entryURL # <<>> THEN 1 ELSE 0)
              + (IF entryYear # 0 THEN 1 ELSE 0)
      lastAuthorIndex == Len(tokens) - 2 - back
      titleIndex == Len(tokens) - 1 - back
  IN  [authors |-> SubSeq(tokens, 1, lastAuthorIndex + 1),
       title |-> tokens[titleIndex + 1], year |-> entryYear]

\* the switch on len(tokens): authors, title and year before the defaults
Disambiguate(tokens, entryURL) ==
  CASE Len(tokens) = 1 -> Case1(tokens)
    [] Len(tokens) = 2 -> Case2(tokens, entryURL)
    [] Len(tokens) = 3 ->
         Case3(tokens, entryURL, extractYear(tokens[3]))
    [] OTHER ->
         CaseDefault(tokens, entryURL,
                     YearOrElse(extractYear(tokens[Len(tokens)]),
                                extractYear(tokens[Len(tokens) - 1])))

\* a default year that replaces the year read from the body
DefaultYear_Always(entryYear, cfg) ==
  IF cfg.DefaultYear # 0 THEN cfg.DefaultYear ELSE entryYear

\* if entryYear == 0 { entryYear = c.config.DefaultYear }
DefaultYear(entryYear, cfg) ==
  IF entryYear = 0 THEN cfg.DefaultYear ELSE entryYear

\* the defaults and the trimming: the Entry before its key is set
Fields(d, entryURL, cfg) ==
  [Key |-> <<>>,
   Authors |-> [i \in 1..Len(d.authors) |-> TrimSpace(d.authors[i])],
   Title |-> TrimSpace(d.title),
   Year |-> DefaultYear(d.year, cfg),
   URL |-> entryURL,
   Visited |-> cfg.DefaultVisited]

\* the Entry of an item whose URL has been extracted
ParseWithURL(item, entryURL, cfg) ==
  Fields(Disambiguate(Split(item.value, ","), entryURL), entryURL, cfg)

\* entryURL = extractURL(item.value) on the whole body, then the rest
ParseFields(item, cfg) == ParseWithURL(item, extractURL(item.value), cfg)

\* key := item.key; if key == "" { key = entry.GenKey() }: GenKey reads
\* Authors[0], which panics (index out of range) on an empty author list
KeyPanics(item, e) == item.key = <<>> /\ e.Authors = <<>>

\* the Entry with its key, or the panic
WithKey(item, e) ==
  IF KeyPanics(item, e) THEN [panic |-> TRUE, entry |-> e]
  ELSE [panic |-> FALSE,
        entry |-> [e EXCEPT !.Key = IF item.key = <<>> THEN GenKey(e)
                                    ELSE item.key]]

\* one iteration of parser: the Entry sent on stage2OutChannel, or a panic
ParseItem(item, cfg) == WithKey(item, ParseFields(item, cfg))

----------------------------------------------------------------------------
(* Inputs *)

LKey == <<"\t", BibItem, "k", "}">>

LKey2 == <<BibItem, "j", "}">>

LNoKey == <<BibItem, "}">>

LEnd == EndBibliography

LBody == <<" ", "a", ",", " ", "t", " ">>

LTitle == <<"t">>

LBlank == <<" ">>

\* a marker line whose only '}' comes before the first '{'
LBadKey == <<"}", BibItem, "k">>

Lines == {LKey, LKey2, LNoKey, LBadKey, LEnd, LBody, LTitle, LBlank}

\* what ReadLine returns once the lines are exhausted
InputEnds == {"EOF", ErrIO}

Configs ==
  {[DefaultYear |-> 0, DefaultVisited |-> NoDate],
   [DefaultYear |-> 2010, DefaultVisited |-> <<2018, 7, 6>>]}

----------------------------------------------------------------------------
(* State *)

VARIABLES
  input,        \* the lines of Config.Input
  inputEnd,     \* the error ReadLine returns after the last line
  config,       \* Config.DefaultYear, Config.DefaultVisited
  outputFaulty, \* whether Config.Output.Write can fail
  pos,          \* number of lines the reader has returned
  dPC,          \* divider: the statement it is at
  dKey,         \* divider: currentResult.key
  dEntry,       \* divider: currentEntry
  dLine,        \* divider: readLine, kept while the send of line 339 blocks
  dErr,         \* divider: err, kept while the send on errorChannel blocks
  stage1,       \* stage1OutChannel: buffered items
  stage1Closed, \* stage1OutChannel: closed
  pPC,          \* parser: the statement it is at
  pEntry,       \* parser: entry, kept while the send of line 462 blocks
  stage2,       \* stage2OutChannel: buffered items
  stage2Closed, \* stage2OutChannel: closed
  wPC,          \* writer: the statement it is at
  okCount,      \* okChannel: number of buffered values
  cPC,          \* caller: at its select, past it, or exited
  panicked,     \* the goroutine that panicked (the process is gone), or "none"
  output,       \* what Config.Output has received
  emitted,      \* history: the items sent on stage1OutChannel
  dErrSends,    \* history: the errors divider has reached a send of
  errLog,       \* history: the errors the caller received, with their sender
  outcomes,     \* history: per item parser took, what ParseItem gave
  handled,      \* history: per Entry writer took, the Entry and Write's result
  call,         \* a direct call of a package function: its name, its argument
  ret           \* what the direct call returned

vars ==
  <<input, inputEnd, config, outputFaulty, pos, dPC, dKey, dEntry, dLine,
    dErr, stage1, stage1Closed, pPC, pEntry, stage2, stage2Closed, wPC,
    okCount, cPC, panicked, output, emitted, dErrSends, errLog, outcomes,
    handled, call, ret>>

dividerVars == <<pos, dPC, dKey, dEntry, dLine, dErr, dErrSends>>

parserVars == <<pPC, pEntry, outcomes>>

writerVars == <<wPC, okCount, output, handled>>

\* no direct call is made
NoCall == [fn |-> "none", arg |-> <<>>]

\* no direct call has returned
NoRet == [fn |-> "none", val |-> <<>>, err |-> "nil"]

InitState ==
  /\ pos = 0
  /\ dPC = "find"
  /\ dKey = <<>>
  /\ dEntry = <<>>
  /\ dLine = <<>>
  /\ dErr = "nil"
  /\ stage1 = <<>>
  /\ stage1Closed = FALSE
  /\ pPC = "recv"
  /\ pEntry = <<>>
  /\ stage2 = <<>>
  /\ stage2Closed = FALSE
  /\ wPC = "recv"
  /\ okCount = 0
  /\ cPC = "select"
  /\ panicked = "none"
  /\ output = <<>>
  /\ emitted = <<>>
  /\ dErrSends = <<>>
  /\ errLog = <<>>
  /\ outcomes = <<>>
  /\ handled = <<>>

Init ==
  /\ input \in UNION {[1..n -> Lines] : n \in 0..MaxLines}
  /\ inputEnd \in InputEnds
  /\ config \in Configs
  /\ outputFaulty \in BOOLEAN
  /\ call = NoCall
  /\ ret = NoRet
  /\ InitState

\* the goroutines run until the process ends: a panic, or the caller's exit
Running == panicked = "none" /\ cPC # "exited"

----------------------------------------------------------------------------
(* Channels *)

\* a send that never waits for room in the buffer
CanSend_Always(q) == TRUE

\* a send on a buffered channel proceeds when the buffer has room
CanSend(q) == Len(q) < ChanCap

\* a buffer that hands out the newest item first
Enqueue_Front(q, x) == <<x>> \o q

\* the buffer after a send
Enqueue(q, x) == Append(q, x)

\* a range loop that ends as soon as the buffer is empty
RangeDone_Empty(q, closed) == q = <<>>

\* for ... range ch ends when ch is closed and drained
RangeDone(q, closed) == q = <<>> /\ closed

\* an error send that does not wait for a receiver and delivers nothing
ErrSend_NoWait(from, err) == UNCHANGED <<cPC, errLog>>

\* c.errorChannel <- err: unbuffered, proceeds with the caller's receive
ErrSend(from, err) ==
  /\ cPC = "select"
  /\ cPC' = "got_err"
  /\ errLog' = Append(errLog, [from |-> from, err |-> err])

\* c.stage1OutChannel <- currentResult; a send on a closed channel panics
Stage1Send(item) ==
  IF stage1Closed
  THEN /\ panicked' = "divider"
       /\ UNCHANGED <<stage1, emitted>>
  ELSE /\ CanSend(stage1)
       /\ stage1' = Enqueue(stage1, item)
       /\ emitted' = Append(emitted, item)
       /\ UNCHANGED panicked

\* close(c.stage1OutChannel); closing a closed channel panics
Stage1Close ==
  IF stage1Closed
  THEN /\ panicked' = "divider"
       /\ UNCHANGED stage1Closed
  ELSE /\ stage1Closed' = TRUE
       /\ UNCHANGED panicked

----------------------------------------------------------------------------
(* divider *)

\* c.reader.ReadLine(): the next line, or the error after the last one
ReadErr == IF pos < Len(input) THEN "nil" ELSE inputEnd

ReadLine == IF pos < Len(input) THEN input[pos + 1] ELSE <<>>

\* a first loop that reports the end of the input as the second loop does
FindErr_Unclosed(err) == IF err = "EOF" THEN ErrBibUnclosed ELSE err

\* first loop: if err == io.EOF { err = ErrBibEmpty }
FindErr(err) == IF err = "EOF" THEN ErrBibEmpty ELSE err

\* second loop: if err == io.EOF { err = ErrBibUnclosed }
InnerErr(err) == IF err = "EOF" THEN ErrBibUnclosed ELSE err

\* a first loop whose error branch leaves innerLoop true
AfterFindClose_Inner == "inner"

\* where the first loop's error branch leaves divider: bibitemFindLoop and
\* innerLoop are both false
AfterFindClose == "done"

\* the if / else if / else of the second loop
LineKind(readLine) ==
  IF ContainsBibItem(readLine) THEN "item"
  ELSE IF ContainsEnd(readLine) THEN "last"
  ELSE "text"

\* a currentEntry that takes the line as it was read
WriteLine_Raw(entry, readLine) == entry \o readLine

\* currentEntry after a line that is neither marker: trimmed, appended if
\* not empty
WriteLine(entry, readLine) ==
  LET t == TrimSpace(readLine)
  IN  IF Len(t) > 0 THEN entry \o t ELSE entry

\* key, _ = extractKey(readLine); currentResult.key = key
\* (a panic inside extractKey ends the process)
SetKeyTo(r) ==
  IF r.err = "panic"
  THEN /\ panicked' = "divider"
       /\ UNCHANGED dKey
  ELSE /\ dKey' = r.key
       /\ UNCHANGED panicked

SetKey(readLine) == SetKeyTo(extractKey(readLine))

\* first loop, one iteration without error, or up to the send of line 301
D_FindRead ==
  /\ Running
  /\ dPC = "find"
  /\ IF ReadErr # "nil"
     THEN /\ dErr' = FindErr(ReadErr)
          /\ dErrSends' = Append(dErrSends, FindErr(ReadErr))
          /\ dPC' = "find_err"
          /\ UNCHANGED <<pos, dKey, panicked>>
     ELSE /\ pos' = pos + 1
          /\ IF ContainsBibItem(ReadLine)
             THEN /\ SetKey(ReadLine)
                  /\ dPC' = "inner"
             ELSE UNCHANGED <<dKey, dPC, panicked>>
          /\ UNCHANGED <<dErr, dErrSends>>
  /\ UNCHANGED <<call, ret, input, inputEnd, config, outputFaulty,
                 dEntry, dLine,
                 stage1, stage1Closed, stage2, stage2Closed, cPC, emitted,
                 errLog, parserVars, writerVars>>

\* line 301: c.errorChannel <- err
D_FindSendErr ==
  /\ Running
  /\ dPC = "find_err"
  /\ ErrSend("divider", dErr)
  /\ dPC' = "find_close"
  /\ UNCHANGED <<call, ret, input, inputEnd, config, outputFaulty,
                 pos, dKey, dEntry,
                 dLine, dErr, dErrSends, stage1, stage1Closed, stage2,
                 stage2Closed, panicked, emitted, parserVars, writerVars>>

\* line 302: close(c.stage1OutChannel), then the rest of the iteration on
\* the empty readLine
D_FindClose ==
  /\ Running
  /\ dPC = "find_close"
  /\ Stage1Close
  /\ dPC' = AfterFindClose
  /\ UNCHANGED <<call, ret, input, inputEnd, config, outputFaulty,
                 pos, dKey, dEntry,
                 dLine, dErr, dErrSends, stage1, stage2, stage2Closed, cPC,
                 emitted, errLog, parserVars, writerVars>>

\* second loop: ReadLine and the iteration up to its first channel operation
D_InnerRead ==
  /\ Running
  /\ dPC = "inner"
  /\ IF ReadErr # "nil"
     THEN /\ dErr' = InnerErr(ReadErr)
          /\ dErrSends' = Append(dErrSends, InnerErr(ReadErr))
          /\ dPC' = "inner_err"
          /\ UNCHANGED <<pos, dEntry, dLine>>
     ELSE /\ pos' = pos + 1
          /\ UNCHANGED <<dErr, dErrSends>>
          /\ CASE LineKind(ReadLine) = "item" ->
                    /\ dPC' = "item"
                    /\ dLine' = ReadLine
                    /\ UNCHANGED dEntry
               [] LineKind(ReadLine) = "last" ->
                    /\ dPC' = "last"
                    /\ UNCHANGED <<dEntry, dLine>>
               [] OTHER ->
                    /\ dEntry' = WriteLine(dEntry, ReadLine)
                    /\ UNCHANGED <<dPC, dLine>>
  /\ UNCHANGED <<call, ret, input, inputEnd, config, outputFaulty,
                 dKey, stage1,
                 stage1Closed, stage2, stage2Closed, cPC, panicked, emitted,
                 errLog, parserVars, writerVars>>

\* line 327: c.errorChannel <- err
D_InnerSendErr ==
  /\ Running
  /\ dPC = "inner_err"
  /\ ErrSend("divider", dErr)
  /\ dPC' = "inner_err_item"
  /\ UNCHANGED <<call, ret, input, inputEnd, config, outputFaulty,
                 pos, dKey, dEntry,
                 dLine, dErr, dErrSends, stage1, stage1Closed, stage2,
                 stage2Closed, panicked, emitted, parserVars, writerVars>>

\* lines 329-330: the send of currentResult after the error
D_InnerErrSendItem ==
  /\ Running
  /\ dPC = "inner_err_item"
  /\ Stage1Send([key |-> dKey, value |-> dEntry])
  /\ dPC' = "inner_err_close"
  /\ UNCHANGED <<call, ret, input, inputEnd, config, outputFaulty,
                 pos, dKey, dEntry,
                 dLine, dErr, dErrSends, stage1Closed, stage2, stage2Closed,
                 cPC, errLog, parserVars, writerVars>>

\* an error branch whose iteration goes on into the end-marker branch
D_InnerErrClose_Falls ==
  /\ Running
  /\ dPC = "inner_err_close"
  /\ Stage1Close
  /\ dPC' = "last"
  /\ UNCHANGED <<call, ret, input, inputEnd, config, outputFaulty,
                 pos, dKey, dEntry,
                 dLine, dErr, dErrSends, stage1, stage2, stage2Closed, cPC,
                 emitted, errLog, parserVars, writerVars>>

\* line 331: close(c.stage1OutChannel); the rest of the iteration sees the
\* empty readLine and innerLoop = false
D_InnerErrClose ==
  /\ Running
  /\ dPC = "inner_err_close"
  /\ Stage1Close
  /\ dPC' = "done"
  /\ UNCHANGED <<call, ret, input, inputEnd, config, outputFaulty,
                 pos, dKey, dEntry,
                 dLine, dErr, dErrSends, stage1, stage2, stage2Closed, cPC,
                 emitted, errLog, parserVars, writerVars>>

\* lines 338-344: send the finished item, reset the builder, read the key
D_SendItem ==
  /\ Running
  /\ dPC = "item"
  /\ IF stage1Closed
     THEN /\ panicked' = "divider"
          /\ UNCHANGED <<stage1, emitted, dPC, dKey, dEntry, dLine>>
     ELSE /\ CanSend(stage1)
          /\ stage1' = Enqueue(stage1, [key |-> dKey, value |-> dEntry])
          /\ emitted' = Append(emitted, [key |-> dKey, value |-> dEntry])
          /\ dEntry' = <<>>
          /\ SetKey(dLine)
          /\ dLine' = <<>>
          /\ dPC' = "inner"
  /\ UNCHANGED <<call, ret, input, inputEnd, config, outputFaulty, pos, dErr,
                 dErrSends, stage1Closed, stage2, stage2Closed, cPC, errLog,
                 parserVars, writerVars>>

\* lines 347-349: the end marker, send the last item
D_SendLast ==
  /\ Running
  /\ dPC = "last"
  /\ Stage1Send([key |-> dKey, value |-> dEntry])
  /\ dPC' = "last_close"
  /\ UNCHANGED <<call, ret, input, inputEnd, config, outputFaulty,
                 pos, dKey, dEntry,
                 dLine, dErr, dErrSends, stage1Closed, stage2, stage2Closed,
                 cPC, errLog, parserVars, writerVars>>

\* line 350: close(c.stage1OutChannel)
D_LastClose ==
  /\ Running
  /\ dPC = "last_close"
  /\ Stage1Close
  /\ dPC' = "done"
  /\ UNCHANGED <<call, ret, input, inputEnd, config, outputFaulty,
                 pos, dKey, dEntry,
                 dLine, dErr, dErrSends, stage1, stage2, stage2Closed, cPC,
                 emitted, errLog, parserVars, writerVars>>

divider ==
  \/ D_FindRead
  \/ D_FindSendErr
  \/ D_FindClose
  \/ D_InnerRead
  \/ D_InnerSendErr
  \/ D_InnerErrSendItem
  \/ D_InnerErrClose
  \/ D_SendItem
  \/ D_SendLast
  \/ D_LastClose

----------------------------------------------------------------------------
(* parser *)

\* what parser does with the outcome r of one iteration
P_Got(r) ==
  /\ outcomes' = Append(outcomes, r)
  /\ IF r.panic
     THEN /\ panicked' = "parser"
          /\ UNCHANGED <<pPC, pEntry>>
     ELSE /\ pPC' = "send"
          /\ pEntry' = r.entry
          /\ UNCHANGED panicked

\* a parser whose default year depends on how many items it has parsed
P_Recv_Counting ==
  /\ Running
  /\ pPC = "recv"
  /\ stage1 # <<>>
  /\ stage1' = Tail(stage1)
  /\ P_Got(ParseItem(Head(stage1),
                     [config EXCEPT !.DefaultYear = Len(outcomes)]))
  /\ UNCHANGED <<call, ret, input, inputEnd, config, outputFaulty,
                 stage1Closed, stage2,
                 stage2Closed, cPC, emitted, errLog, dividerVars,
                 writerVars>>

\* for item := range c.stage1OutChannel { ... up to the send of line 462
P_Recv ==
  /\ Running
  /\ pPC = "recv"
  /\ stage1 # <<>>
  /\ stage1' = Tail(stage1)
  /\ P_Got(ParseItem(Head(stage1), config))
  /\ UNCHANGED <<call, ret, input, inputEnd, config, outputFaulty,
                 stage1Closed, stage2,
                 stage2Closed, cPC, emitted, errLog, dividerVars,
                 writerVars>>

\* line 462: c.stage2OutChannel <- entry
P_Send ==
  /\ Running
  /\ pPC = "send"
  /\ IF stage2Closed
     THEN /\ panicked' = "parser"
          /\ UNCHANGED <<stage2, pPC, pEntry>>
     ELSE /\ CanSend(stage2)
          /\ stage2' = Enqueue(stage2, pEntry)
          /\ pPC' = "recv"
          /\ pEntry' = <<>>
          /\ UNCHANGED panicked
  /\ UNCHANGED <<call, ret, input, inputEnd, config, outputFaulty,
                 stage1, stage1Closed,
                 stage2Closed, cPC, emitted, errLog, outcomes, dividerVars,
                 writerVars>>

\* the range loop ends; line 464: close(c.stage2OutChannel)
P_Close ==
  /\ Running
  /\ pPC = "recv"
  /\ RangeDone(stage1, stage1Closed)
  /\ IF stage2Closed
     THEN /\ panicked' = "parser"
          /\ UNCHANGED <<stage2Closed, pPC>>
     ELSE /\ stage2Closed' = TRUE
          /\ pPC' = "done"
          /\ UNCHANGED panicked
  /\ UNCHANGED <<call, ret, input, inputEnd, config, outputFaulty,
                 stage1, stage1Closed,
                 stage2, cPC, emitted, errLog, pEntry, outcomes, dividerVars,
                 writerVars>>

parser == P_Recv \/ P_Send \/ P_Close

----------------------------------------------------------------------------
(* writer *)

\* for bibEntry := range c.stage2OutChannel { Output.Write(...): the write
\* succeeds, or (on a faulty output) fails and leaves the stream as it was
W_Recv ==
  /\ Running
  /\ wPC = "recv"
  /\ stage2 # <<>>
  /\ stage2' = Tail(stage2)
  /\ \E fails \in {FALSE, outputFaulty} :
       IF fails
       THEN /\ handled' = Append(handled, [entry |-> Head(stage2),
                                            err |-> ErrWrite])
            /\ wPC' = "send_err"
            /\ UNCHANGED output
       ELSE /\ handled' = Append(handled, [entry |-> Head(stage2),
                                            err |-> "nil"])
            /\ output' = output \o Block(Head(stage2))
            /\ UNCHANGED wPC
  /\ UNCHANGED <<call, ret, input, inputEnd, config, outputFaulty,
                 stage1, stage1Closed,
                 stage2Closed, okCount, cPC, panicked, emitted, errLog,
                 dividerVars, parserVars>>

\* a writer that drops the error of a failed Write and goes on
W_SendErr_Swallow ==
  /\ Running
  /\ wPC = "send_err"
  /\ wPC' = "recv"
  /\ UNCHANGED <<call, ret, input, inputEnd, config, outputFaulty,
                 stage1, stage1Closed,
                 stage2, stage2Closed, okCount, cPC, panicked, output,
                 emitted, errLog, handled, dividerVars, parserVars>>

\* line 485: c.errorChannel <- err, then the next iteration
W_SendErr ==
  /\ Running
  /\ wPC = "send_err"
  /\ ErrSend("writer", ErrWrite)
  /\ wPC' = "recv"
  /\ UNCHANGED <<call, ret, input, inputEnd, config, outputFaulty,
                 stage1, stage1Closed,
                 stage2, stage2Closed, okCount, panicked, output, emitted,
                 handled, dividerVars, parserVars>>

\* a writer that comes back to its loop after the completion signal
W_SendOk_Again ==
  /\ Running
  /\ wPC = "recv"
  /\ RangeDone(stage2, stage2Closed)
  /\ okCount < OkCap
  /\ okCount' = okCount + 1
  /\ wPC' = "recv"
  /\ UNCHANGED <<call, ret, input, inputEnd, config, outputFaulty,
                 stage1, stage1Closed,
                 stage2, stage2Closed, cPC, panicked, output, emitted, errLog,
                 handled, dividerVars, parserVars>>

\* the range loop ends; line 489: c.okChannel <- struct{}{}
W_SendOk ==
  /\ Running
  /\ wPC = "recv"
  /\ RangeDone(stage2, stage2Closed)
  /\ okCount < OkCap
  /\ okCount' = okCount + 1
  /\ wPC' = "done"
  /\ UNCHANGED <<call, ret, input, inputEnd, config, outputFaulty,
                 stage1, stage1Closed,
                 stage2, stage2Closed, cPC, panicked, output, emitted, errLog,
                 handled, dividerVars, parserVars>>

writer == W_Recv \/ W_SendErr \/ W_SendOk

----------------------------------------------------------------------------
(* the caller: Convert(), one select over OkChan and ErrChan, then it goes
   on (cmd/gobib flushes, closes and exits) *)

\* case <-okChan
C_RecvOk ==
  /\ Running
  /\ cPC = "select"
  /\ okCount > 0
  /\ okCount' = okCount - 1
  /\ cPC' = "got_ok"
  /\ UNCHANGED <<call, ret, input, inputEnd, config, outputFaulty,
                 stage1, stage1Closed,
                 stage2, stage2Closed, wPC, panicked, output, emitted, errLog,
                 handled, dividerVars, parserVars>>

\* os.Exit(exit)
C_Exit ==
  /\ Running
  /\ cPC \in {"got_ok", "got_err"}
  /\ cPC' = "exited"
  /\ UNCHANGED <<call, ret, input, inputEnd, config, outputFaulty,
                 stage1, stage1Closed,
                 stage2, stage2Closed, panicked, emitted, errLog, dividerVars,
                 parserVars, writerVars>>

caller == C_RecvOk \/ C_Exit

----------------------------------------------------------------------------

Next == divider \/ parser \/ writer \/ caller

Spec == Init /\ [][Next]_vars

----------------------------------------------------------------------------
(* Long inputs: k items of one shape, closed by the end marker or not *)

RECURSIVE Repeat(_, _)
Repeat(s, k) == IF k = 0 THEN <<>> ELSE s \o Repeat(s, k - 1)

LongItems == {<<LKey>>, <<LNoKey, LBody>>, <<LNoKey>>}

LongInputs ==
  {Repeat(item, k) \o ending :
     item \in LongItems, k \in 0..MaxItems, ending \in {<<LEnd>>, <<>>}}

InitLong ==
  /\ input \in LongInputs
  /\ inputEnd = "EOF"
  /\ config \in Configs
  /\ outputFaulty \in BOOLEAN
  /\ call = NoCall
  /\ ret = NoRet
  /\ InitState

SpecLong == InitLong /\ [][Next]_vars

\* the Go scheduler runs every goroutine that can run, and the caller sits in
\* its select until one case is ready.  Every run is finite (each goroutine
\* only moves forward), so one weak-fairness condition on the goroutines'
\* steps says the same as one per goroutine: the run stops only where none
\* of them can step.  The caller's exit is not forced.
Fairness == WF_vars(divider \/ parser \/ writer \/ C_RecvOk)

FairSpecLong == InitLong /\ [][Next]_vars /\ Fairness

----------------------------------------------------------------------------
(* One item through parser and writer.  The run starts where divider has
   finished a bibliography of one marker line, one body line and the end
   marker, and parser and writer have not yet run.  Each Write may succeed
   or fail. *)

\* the tokens a body line is made of
TAuthor == <<"a">>

TTitle == <<" ", "t", " ">>

TYear == <<" ", "2", "0", "1", "1">>

TURL == <<" ", URLToken, "u", "}">>

Tokens == {TAuthor, TTitle, TYear, TURL}

TokenLists == UNION {[1..n -> Tokens] : n \in 1..MaxTokens}

\* the base case of the README with two authors, in its two orders
BaseLists ==
  {<<TAuthor, TAuthor, TTitle, TYear, TURL>>,
   <<TAuthor, TAuthor, TTitle, TURL, TYear>>}

\* the body lines: tokens joined by commas
Bodies == {Join(toks, <<",">>) : toks \in TokenLists \cup BaseLists}

\* the item divider sends for marker line m followed by body line b
ItemOf(m, b) == [key |-> extractKey(m).key, value |-> WriteLine(<<>>, b)]

InitParser ==
  /\ \E m \in {LKey, LNoKey}, b \in Bodies :
       /\ input = <<m, b, LEnd>>
       /\ dKey = ItemOf(m, b).key
       /\ dEntry = ItemOf(m, b).value
       /\ stage1 = <<ItemOf(m, b)>>
       /\ emitted = <<ItemOf(m, b)>>
  /\ inputEnd = "EOF"
  /\ config \in Configs
  /\ outputFaulty = TRUE
  /\ call = NoCall
  /\ ret = NoRet
  /\ pos = 3
  /\ dPC = "done"
  /\ dLine = <<>>
  /\ dErr = "nil"
  /\ stage1Closed = TRUE
  /\ pPC = "recv"
  /\ pEntry = <<>>
  /\ stage2 = <<>>
  /\ stage2Closed = FALSE
  /\ wPC = "recv"
  /\ okCount = 0
  /\ cPC = "select"
  /\ panicked = "none"
  /\ output = <<>>
  /\ dErrSends = <<>>
  /\ errLog = <<>>
  /\ outcomes = <<>>
  /\ handled = <<>>

\* parser and writer run while the caller waits in its select
NextParser == parser \/ writer

SpecParser == InitParser /\ [][NextParser]_vars

----------------------------------------------------------------------------
(* Direct calls of the package's functions, as the tests make them
   (runKeyFromLine): one call per run, the pipeline is not started *)

KeyAlphabet == {BibItem, "{", "}", "k"}

\* the lines extractKey is called on
KeyLines == UNION {[1..n -> KeyAlphabet] : n \in 0..MaxKeyLine}

FieldAlphabet == {" ", "1", "a"}

\* the fields extractYear is called on
YearFields == UNION {[1..n -> FieldAlphabet] : n \in 0..MaxField}

URLAlphabet == {URLToken, "}", "u", NonASCII}

\* the texts extractURL is called on
URLTexts == UNION {[1..n -> URLAlphabet] : n \in 0..MaxURLText}

Calls ==
  {[fn |-> "extractKey", arg |-> l] : l \in KeyLines}
  \cup {[fn |-> "extractYear", arg |-> f] : f \in YearFields}
  \cup {[fn |-> "extractURL", arg |-> t] : t \in URLTexts}

InitCalls ==
  /\ call \in Calls
  /\ ret = NoRet
  /\ input = <<>>
  /\ inputEnd = "EOF"
  /\ config = [DefaultYear |-> 0, DefaultVisited |-> NoDate]
  /\ outputFaulty = FALSE
  /\ InitState

\* what the caller of extractKey gets: (key, err), or the panic
KeyReturn(r) == [fn |-> "extractKey", val |-> r.key, err |-> r.err]

\* key, err := extractKey(line)
Call_extractKey ==
  /\ call.fn = "extractKey"
  /\ ret.fn = "none"
  /\ ret' = KeyReturn(extractKey(call.arg))
  /\ UNCHANGED <<call, input, inputEnd, config, outputFaulty, stage1,
                 stage1Closed, stage2, stage2Closed, cPC, panicked, emitted,
                 errLog, dividerVars, parserVars, writerVars>>

\* year := extractYear(line)
Call_extractYear ==
  /\ call.fn = "extractYear"
  /\ ret.fn = "none"
  /\ ret' = [fn |-> "extractYear", val |-> extractYear(call.arg),
             err |-> "nil"]
  /\ UNCHANGED <<call, input, inputEnd, config, outputFaulty, stage1,
                 stage1Closed, stage2, stage2Closed, cPC, panicked, emitted,
                 errLog, dividerVars, parserVars, writerVars>>

\* got := extractURL(line); ret.val lists the results of the calls made
Call_extractURL ==
  /\ call.fn = "extractURL"
  /\ ret.fn = "none"
  /\ ret' = [fn |-> "extractURL", val |-> <<extractURL(call.arg)>>,
             err |-> "nil"]
  /\ UNCHANGED <<call, input, inputEnd, config, outputFaulty, stage1,
                 stage1Closed, stage2, stage2Closed, cPC, panicked, emitted,
                 errLog, dividerVars, parserVars, writerVars>>

\* extractURL called on what extractURL returned
Call_extractURL_Again ==
  /\ ret.fn = "extractURL"
  /\ Len(ret.val) = 1
  /\ ret' = [ret EXCEPT !.val = Append(ret.val, extractURL(ret.val[1]))]
  /\ UNCHANGED <<call, input, inputEnd, config, outputFaulty, stage1,
                 stage1Closed, stage2, stage2Closed, cPC, panicked, emitted,
                 errLog, dividerVars, parserVars, writerVars>>

NextCalls ==
  \/ Call_extractKey
  \/ Call_extractYear
  \/ Call_extractURL
  \/ Call_extractURL_Again

SpecCalls == InitCalls /\ [][NextCalls]_vars

----------------------------------------------------------------------------
(* The caller of cmd/gobib: after its receive main flushes and closes the
   output, then exits *)

\* out.Flush(), inputFile.Close(), outputFile.Close() after the select
C_Flush ==
  /\ Running
  /\ cPC \in {"got_ok", "got_err"}
  /\ cPC' = IF cPC = "got_ok" THEN "flushed_ok" ELSE "flushed_err"
  /\ UNCHANGED <<call, ret, input, inputEnd, config, outputFaulty,
                 stage1, stage1Closed,
                 stage2, stage2Closed, panicked, emitted, errLog, dividerVars,
                 parserVars, writerVars>>

\* os.Exit(exit), the output flushed and closed
C_ExitFlushed ==
  /\ Running
  /\ cPC \in {"flushed_ok", "flushed_err"}
  /\ cPC' = "exited"
  /\ UNCHANGED <<call, ret, input, inputEnd, config, outputFaulty,
                 stage1, stage1Closed,
                 stage2, stage2Closed, panicked, emitted, errLog, dividerVars,
                 parserVars, writerVars>>

NextMain ==
  divider \/ parser \/ writer \/ C_RecvOk \/ C_Flush \/ C_ExitFlushed

SpecMain == Init /\ [][NextMain]_vars

----------------------------------------------------------------------------
(* What an input is, read off its lines *)

\* the positions of the lines containing the bibitem marker
MarkerIdx(inp) == {i \in 1..Len(inp) : ContainsBibItem(inp[i])}

\* the positions of the lines containing the end marker and no bibitem marker
EndIdx(inp) ==
  {i \in 1..Len(inp) : ContainsEnd(inp[i]) /\ ~ContainsBibItem(inp[i])}

Min(S) == CHOOSE x \in S : \A y \in S : x <= y

Max(S) == CHOOSE x \in S : \A y \in S : y <= x

\* k >= 1 marker lines, then an end marker line: there is an end marker line
\* after the last marker line and none between the first and the last
WellFormed(inp) ==
  /\ MarkerIdx(inp) # {}
  /\ \E e \in EndIdx(inp) : e > Max(MarkerIdx(inp))
  /\ \A e \in EndIdx(inp) : e < Min(MarkerIdx(inp)) \/ e > Max(MarkerIdx(inp))

\* at least one marker line and no end marker line after the first of them
Unclosed(inp) ==
  /\ MarkerIdx(inp) # {}
  /\ \A e \in EndIdx(inp) : e < Min(MarkerIdx(inp))

RECURSIVE MarkerKeys(_)
\* the keys of the marker lines, in source order ("" where none can be read)
MarkerKeys(inp) ==
  IF inp = <<>> THEN <<>>
  ELSE IF ContainsBibItem(Head(inp))
       THEN <<extractKey(Head(inp)).key>> \o MarkerKeys(Tail(inp))
       ELSE MarkerKeys(Tail(inp))

\* the errors the caller received from divider
DividerErrs == SelectSeq(errLog, LAMBDA e : e.from = "divider")

RECURSIVE Written(_)
\* the blocks of the entries whose Write succeeded, concatenated in order
Written(h) ==
  IF h = <<>> THEN <<>>
  ELSE (IF Head(h).err = "nil" THEN Block(Head(h).entry) ELSE <<>>)
       \o Written(Tail(h))

\* the completion signal has been sent on okChannel
OkSent == wPC = "done"

----------------------------------------------------------------------------
(* Claims *)

\* C1: on every input with k >= 1 bibitem marker lines followed by an end
\* marker line, divider sends exactly k items on stage1OutChannel, in source
\* order, the i-th with the key of the i-th marker line, then closes the
\* channel, and reaches no send on errorChannel.  Stated of the whole run:
\* no error send is ever reached, the items sent so far carry the keys of
\* the first marker lines, divider does not panic, and once it is done the
\* channel is closed and all k items have been sent.
C1_DividerOk ==
  WellFormed(input) =>
    /\ dErrSends = <<>>
    /\ Len(emitted) <= Len(MarkerKeys(input))
    /\ \A i \in 1..Len(emitted) : emitted[i].key = MarkerKeys(input)[i]
    /\ panicked # "divider"
    /\ (dPC = "done" \/ stage1Closed) =>
         /\ stage1Closed
         /\ Len(emitted) = Len(MarkerKeys(input))

\* C2: on every input that reaches end-of-input with no bibitem marker line
\* (the empty input included), divider raises ErrBibEmpty and sends no item:
\* the only error send it reaches is ErrBibEmpty, past that send the caller
\* holds exactly this error, and stage1OutChannel never receives an item.
C2_EmptyBib ==
  (MarkerIdx(input) = {} /\ inputEnd = "EOF") =>
    /\ emitted = <<>>
    /\ dPC \in {"find", "find_err", "find_close", "done"}
    /\ dPC # "find" => dErrSends = <<ErrBibEmpty>>
    /\ dPC \in {"find_close", "done"} =>
         errLog = <<[from |-> "divider", err |-> ErrBibEmpty]>>
    /\ dPC = "done" => stage1Closed

C2_Witness ==
  /\ MarkerIdx(input) = {}
  /\ inputEnd = "EOF"
  /\ Len(input) >= 2
  /\ dPC = "done"
  /\ errLog = <<[from |-> "divider", err |-> ErrBibEmpty]>>

\* C3: on an input with a bibitem marker and no end marker, the final partial
\* item is sent on stage1OutChannel BEFORE ErrBibUnclosed is raised: whenever
\* the caller holds ErrBibUnclosed, one item per marker line has been sent.
C3_PartialBeforeUnclosed ==
  (/\ Unclosed(input)
   /\ \E i \in 1..Len(errLog) :
        errLog[i] = [from |-> "divider", err |-> ErrBibUnclosed])
  => Len(emitted) = Cardinality(MarkerIdx(input))

\* C4: once divider has raised an error, no send on stage1OutChannel happens.
C4_NoSendAfterError ==
  [][DividerErrs # <<>> => emitted' = emitted]_vars

\* C5: divider reaches at most one send on errorChannel in a run, the caller
\* receives no more errors from it than it sends, and when divider is done
\* it has sent exactly one error if it failed (no marker line before the end
\* of the input, or no end marker line after the first marker line) and none
\* if it reached the end marker.
C5_OneError ==
  /\ Len(dErrSends) <= 1
  /\ Len(DividerErrs) <= Len(dErrSends)
  /\ dPC = "done" =>
       /\ Len(DividerErrs) = Len(dErrSends)
       /\ Len(dErrSends) =
            IF MarkerIdx(input) = {} \/ Unclosed(input) THEN 1 ELSE 0

C5_Witness ==
  /\ dPC = "done"
  /\ Unclosed(input)
  /\ Len(DividerErrs) = 1
  /\ Len(emitted) >= 2

\* C6: in every interleaving, the i-th entry writer takes is the parse of the
\* i-th item divider sent, and the output stream holds the blocks of these
\* entries in that order (each block whose Write succeeded, so every block
\* when no Write fails): nothing is reordered, duplicated or lost between
\* divider, parser and writer.
C6_InOrder ==
  /\ Len(handled) <= Len(emitted)
  /\ \A i \in 1..Len(handled) :
       handled[i].entry = ParseItem(emitted[i], config).entry
  /\ output = Written(handled)

C6_Witness ==
  /\ Len(handled) >= 2
  /\ handled[1].entry # handled[2].entry
  /\ \A i \in 1..Len(handled) : handled[i].err = "nil"
  /\ output # <<>>

\* C7: for every well-formed input and an output whose writes all succeed,
\* under fair scheduling the completion signal is eventually sent on
\* okChannel and no error is ever sent on errorChannel.
C7_Completes ==
  (WellFormed(input) /\ ~outputFaulty) =>
    /\ <>OkSent
    /\ [](dErrSends = <<>> /\ errLog = <<>>)

\* C8: whenever the completion signal has been sent, stage1OutChannel is
\* closed and drained, stage2OutChannel is closed and drained, and every
\* item divider sent has been parsed and its block handed to the output
\* stream.
C8_SignalAfterAll ==
  OkSent =>
    /\ stage1Closed /\ stage1 = <<>>
    /\ stage2Closed /\ stage2 = <<>>
    /\ pPC = "done"
    /\ Len(outcomes) = Len(emitted)
    /\ Len(handled) = Len(emitted)
    /\ \A i \in 1..Len(emitted) :
         handled[i].entry = ParseItem(emitted[i], config).entry
    /\ output = Written(handled)

C8_Witness ==
  /\ OkSent
  /\ Len(emitted) >= 2
  /\ output # <<>>

\* C9: parser never fails on data: for every item taken from
\* stage1OutChannel it produces exactly one Entry, sends it on
\* stage2OutChannel and goes on to the next item.
C9_ParserNeverFails ==
  /\ \A i \in 1..Len(outcomes) : ~outcomes[i].panic
  /\ Len(outcomes) =
       Len(handled) + Len(stage2) + (IF pPC = "send" THEN 1 ELSE 0)

\* C10: every item parser has taken has given an Entry with a non-empty key,
\* the items with an empty source key and no author included.
C10_KeyNonEmpty ==
  \A i \in 1..Len(outcomes) :
    /\ emitted[i].key = <<>> => ~outcomes[i].panic
    /\ outcomes[i].entry.Key # <<>>

----------------------------------------------------------------------------
(* Claims on parser's fields.  They are stated of every item parser has
   taken: its raw tokens, the URL of its body, the Entry made from it. *)

\* the comma-separated tokens of the body of the i-th item
RawTokens(i) == Split(emitted[i].value, ",")

\* the URL found in the body of the i-th item
RawURL(i) == extractURL(emitted[i].value)

\* the Entry parser made from the i-th item
EntryOf(i) == outcomes[i].entry

\* the tokens lo..hi of toks, each trimmed
Trimmed(toks, lo, hi) ==
  [j \in 1..(hi - lo + 1) |-> TrimSpace(toks[lo + j - 1])]

\* the first of the two years that is not 0, 0 when both are
FirstYear(y1, y2) == IF y1 # 0 THEN y1 ELSE y2

\* the year the disambiguation reads from the tokens, 0 when it reads none:
\* none for n <= 2, in token 2 for n = 3, in the last token and then in the
\* second-to-last for n >= 4
ExtractedYear(toks) ==
  IF Len(toks) <= 2 THEN 0
  ELSE IF Len(toks) = 3 THEN extractYear(toks[3])
  ELSE FirstYear(extractYear(toks[Len(toks)]),
                 extractYear(toks[Len(toks) - 1]))

\* the year of the Entry for an extracted year y
YearAfterDefault(y) == IF y # 0 THEN y ELSE config.DefaultYear

\* the key rule for an item with key `key` and tokens toks whose Entry is e
KeyRule(key, toks, e) ==
  /\ key # <<>> => e.Key = key
  /\ key = <<>> =>
       /\ e.Key = e.Title \o <<"-">> \o IntToStr(e.Year) \o <<"-">>
                  \o e.Authors[1]
       /\ e.Title = TrimSpace(e.Title)
       /\ e.Authors[1] = TrimSpace(toks[1])
       /\ e.Year = YearAfterDefault(ExtractedYear(toks))

\* C11: for every Entry parser produces, the key is the item's key verbatim
\* when that is non-empty, and otherwise "<title>-<year>-<authors[0]>" made
\* of the Entry's trimmed title, its year after the default has been applied
\* and its trimmed first author.
C11_KeyAssignment ==
  \A i \in 1..Len(outcomes) :
    ~outcomes[i].panic => KeyRule(emitted[i].key, RawTokens(i), EntryOf(i))

C11_Witness ==
  /\ Len(outcomes) = 1
  /\ emitted[1].key = <<>>
  /\ config.DefaultYear = 2010
  /\ RawTokens(1) = <<TAuthor, <<" ", "t">>>>
  /\ EntryOf(1).Key = <<"t", "-", "2", "0", "1", "0", "-", "a">>

\* the (0-based) lastAuthorIndex of a body of n >= 4 tokens: n-2, one less
\* if a URL was found, one less again if a year was found
LastAuthorIndex(toks, url) ==
  Len(toks) - 2 - (IF url # <<>> THEN 1 ELSE 0)
  - (IF ExtractedYear(toks) # 0 THEN 1 ELSE 0)

\* the authors are the tokens 0..lastAuthorIndex, the title is the next one
AuthorsUpTo(toks, lastAuthorIndex, e) ==
  /\ e.Authors = Trimmed(toks, 1, lastAuthorIndex + 1)
  /\ e.Title = TrimSpace(toks[lastAuthorIndex + 2])

ThreeTokensRule(toks, url, y, e) ==
  IF url = <<>> /\ y = 0
  THEN /\ e.Authors = Trimmed(toks, 1, 2)
       /\ e.Title = TrimSpace(toks[3])
  ELSE /\ e.Authors = Trimmed(toks, 1, 1)
       /\ e.Title = TrimSpace(toks[2])
       /\ y # 0 => e.Year = y

\* C13: for an item of 3 tokens a year is read from token 2; with no URL in
\* the body and no year the authors are tokens 0 and 1 and the title is token
\* 2; otherwise the authors are token 0 alone, the title is token 1 and the
\* year read, if any, is the Entry's year.
C13_ThreeTokens ==
  \A i \in 1..Len(outcomes) :
    Len(RawTokens(i)) = 3 =>
      ThreeTokensRule(RawTokens(i), RawURL(i), extractYear(RawTokens(i)[3]),
                      EntryOf(i))

C13_Witness ==
  /\ Len(outcomes) = 1
  /\ RawTokens(1) = <<TAuthor, TTitle, TYear>>
  /\ EntryOf(1).Authors = <<<<"a">>>>
  /\ EntryOf(1).Title = <<"t">>
  /\ EntryOf(1).Year = 2011

\* the rule of 2 tokens
TwoTokensRule(toks, url, e) ==
  /\ e.Authors = Trimmed(toks, 1, 1)
  /\ e.Title = IF url = <<>> THEN TrimSpace(toks[2]) ELSE <<>>
  /\ e.Year = config.DefaultYear

\* C14: for an item of 2 tokens the authors are token 0 alone, the title is
\* token 1 when the body holds no URL and empty when it holds one, and no
\* year is read from the body (the Entry's year is the default).
C14_TwoTokens ==
  \A i \in 1..Len(outcomes) :
    Len(RawTokens(i)) = 2 =>
      TwoTokensRule(RawTokens(i), RawURL(i), EntryOf(i))

C14_Witness ==
  /\ Len(outcomes) = 1
  /\ RawTokens(1) = <<TAuthor, TURL>>
  /\ EntryOf(1).Authors = <<<<"a">>>>
  /\ EntryOf(1).Title = <<>>
  /\ EntryOf(1).URL = <<"u">>

\* the rule of 1 token
OneTokenRule(toks, e) ==
  /\ e.Title = TrimSpace(toks[1])
  /\ e.Authors = <<>>
  /\ e.Year = config.DefaultYear

\* C15: for an item of 1 token the title is that token, the author list is
\* empty and no year is read (the Entry's year is the default).
C15_OneToken ==
  \A i \in 1..Len(outcomes) :
    Len(RawTokens(i)) = 1 => OneTokenRule(RawTokens(i), EntryOf(i))

C15_Witness ==
  /\ Len(outcomes) = 1
  /\ ~outcomes[1].panic
  /\ RawTokens(1) = <<<<"2", "0", "1", "1">>>>
  /\ EntryOf(1).Title = <<"2", "0", "1", "1">>
  /\ EntryOf(1).Year = 0

\* a trimmed token that is a 4-digit year
IsYear(t) == Len(t) = 4 /\ \A j \in 1..4 : IsDigit(t[j])

IsYearToken(tok) == IsYear(TrimSpace(tok))

\* a trimmed token that is a \url{...}
IsURL(t) ==
  /\ Len(t) >= 2
  /\ t[1] = URLToken
  /\ t[Len(t)] = "}"
  /\ \A j \in 2..(Len(t) - 1) : t[j] \notin {URLToken, "}"}

IsURLToken(tok) == IsURL(TrimSpace(tok))

\* author1, ..., authorN, title, then a year and a URL in either order
BaseForm(toks) ==
  /\ Len(toks) >= 4
  /\ \/ IsYearToken(toks[Len(toks) - 1]) /\ IsURLToken(toks[Len(toks)])
     \/ IsURLToken(toks[Len(toks) - 1]) /\ IsYearToken(toks[Len(toks)])

\* the item whose body has the last two tokens of toks in the other order
SwappedItem(key, toks) ==
  [key |-> key,
   value |-> WriteLine(<<>>, Join(SubSeq(toks, 1, Len(toks) - 2)
                                   \o <<toks[Len(toks)], toks[Len(toks) - 1]>>,
                                   <<",">>))]

\* the year token and the URL token of a body of the base form
YearTokenOf(toks) ==
  IF IsYearToken(toks[Len(toks)]) THEN toks[Len(toks)]
  ELSE toks[Len(toks) - 1]

\* the Entry of a body of the base form, whatever the order of its last two
\* tokens
BaseFormRule(toks, e) ==
  /\ e.Authors = Trimmed(toks, 1, Len(toks) - 3)
  /\ e.Title = TrimSpace(toks[Len(toks) - 2])
  /\ e.Year = YearAfterDefault(extractYear(YearTokenOf(toks)))

\* the outcome r of an item of the base form is the outcome of the item with
\* the other order, and has the fields of the base form
OrderRule(key, toks, r) ==
  BaseForm(toks) =>
    /\ r = ParseItem(SwappedItem(key, toks), config)
    /\ BaseFormRule(toks, r.entry)

\* C16: for an item whose body is author1, ..., authorN, title followed by a
\* 4-digit year token and a \url{...} token (N >= 1), parser gives what it
\* gives for the item with these two tokens in the other order: the authors
\* author1..authorN, the title, the URL of the URL token and the year read
\* from the year token.
C16_YearURLOrder ==
  \A i \in 1..Len(outcomes) :
    OrderRule(emitted[i].key, RawTokens(i), outcomes[i])

C16_Witness ==
  /\ Len(outcomes) = 1
  /\ RawTokens(1) = <<TAuthor, TAuthor, TTitle, TURL, TYear>>
  /\ EntryOf(1).Authors = <<<<"a">>, <<"a">>>>
  /\ EntryOf(1).Title = <<"t">>
  /\ EntryOf(1).Year = 2011
  /\ EntryOf(1).URL = <<"u">>

RECURSIVE URLDates(_)
\* the number of urldate lines of a rendered stream
URLDates(s) ==
  IF s = <<>> THEN 0
  ELSE (IF Head(s) = "\turldate = \"" THEN 1 ELSE 0) + URLDates(Tail(s))

\* the number of entries whose Write succeeded
Successes(h) == Len(SelectSeq(h, LAMBDA x : x.err = "nil"))

\* C18: with Config.DefaultVisited set, every Entry carries that date and
\* every block written holds one urldate line; with it unset no Entry
\* carries a date and the output holds no urldate line.
C18_Visited ==
  /\ \A i \in 1..Len(outcomes) : EntryOf(i).Visited = config.DefaultVisited
  /\ \A i \in 1..Len(handled) :
       handled[i].entry.Visited = config.DefaultVisited
  /\ URLDates(output) =
       IF config.DefaultVisited # NoDate THEN Successes(handled) ELSE 0

C18_Witness ==
  /\ config.DefaultVisited = <<2018, 7, 6>>
  /\ Successes(handled) = 1
  /\ URLDates(output) = 1
  /\ \E k \in 1..(Len(output) - 5) :
       SubSeq(output, k, k + 5) =
         <<"\turldate = \"", "2", "0", "1", "8", "-">>

----------------------------------------------------------------------------
(* Claims on the extractors, stated of a direct call and what it returned *)

\* the text strictly between the first '{' and the last '}' of the line
Between(line) == SubSeq(line, FirstOpen(line) + 1, LastClose(line) - 1)

\* the line lacks matching braces: no '{', no '}', or its last '}' lies
\* before its first '{'
NoMatchingBraces(line) ==
  \/ FirstOpen(line) = 0
  \/ LastClose(line) = 0
  \/ LastClose(line) < FirstOpen(line)

\* C19: extractKey(line) returns, for every line, either the text strictly
\* between the first '{' and the last '}' or ErrSyntax, and it returns
\* ErrSyntax whenever the line lacks the bibitem marker or lacks matching
\* braces, the lines whose only '}' comes before the first '{' included.
C19_ExtractKey ==
  ret.fn = "extractKey" =>
    /\ ret.err \in {"nil", ErrSyntax}
    /\ ret.err = "nil" => ret.val = Between(call.arg)
    /\ (~ContainsBibItem(call.arg) \/ NoMatchingBraces(call.arg)) =>
         ret.err = ErrSyntax

\* C20: extractYear(field) returns 0 unless the field is at most 6 bytes long
\* and the number scanned is all there is in the trimmed field: a non-zero
\* result is the whole trimmed field read as a number.
C20_YearWholeField ==
  (ret.fn = "extractYear" /\ ret.val # 0) =>
    /\ ByteLen(call.arg) <= 6
    /\ TrimSpace(call.arg) = IntToStr(ret.val)

\* the position of the last "\url{" of the text, 0 when there is none
URLStart(t) == Highest({i \in 1..Len(t) : t[i] = URLToken})

\* the position of the first '}' after position from, 0 when there is none
NextClose(t, from) == Lowest({i \in (from + 1)..Len(t) : t[i] = "}"})

\* the text from after position from to before position stop (to the end of
\* the text when stop is 0)
TextBetween(t, from, stop) ==
  SubSeq(t, from + 1, IF stop = 0 THEN Len(t) ELSE stop - 1)

\* the substring between the last "\url{" and the next '}' after it, empty
\* when the text holds no "\url{"
URLBetween(t) ==
  IF URLStart(t) = 0 THEN <<>>
  ELSE TextBetween(t, URLStart(t), NextClose(t, URLStart(t)))

\* C21: extractURL never fails, and for every text it returns the substring
\* between the last "\url{" and the next '}' after it (up to the end of the
\* text when no '}' follows), and the empty string when the text holds no
\* "\url{".
C21_ExtractURL ==
  ret.fn = "extractURL" =>
    /\ ret.err = "nil"
    /\ ret.val[1] = URLBetween(call.arg)

\* C22 as stated: extractURL is idempotent, extractURL(extractURL(t)) =
\* extractURL(t) for every text t.
C22_Idempotent ==
  (ret.fn = "extractURL" /\ Len(ret.val) = 2) => ret.val[2] = ret.val[1]

\* C22 as amended: what extractURL returns never holds a "\url{", so
\* extractURL of it is the empty string: extractURL(extractURL(t)) = "" for
\* every text t.
C22_SecondIsEmpty ==
  (ret.fn = "extractURL" /\ Len(ret.val) = 2) =>
    /\ \A i \in 1..Len(ret.val[1]) : ret.val[1][i] # URLToken
    /\ ret.val[2] = <<>>

C22_Witness ==
  /\ ret.fn = "extractURL"
  /\ Len(ret.val) = 2
  /\ call.arg = <<URLToken, URLToken, "u", "}">>
  /\ ret.val[1] = <<"u">>
  /\ ret.val[2] = <<>>

----------------------------------------------------------------------------
(* Claims on the rendered text and on errors, stated of the pipeline *)

\* the chunks that open a block, open one of its field lines, or separate
\* it from the next block
Labels ==
  {"@online{", "\tauthor = \"", "\ttitle = \"", "\tyear = \"",
   "\turl = \"", "\turldate = \"", "\n\n"}

\* the labels of a text, in order
LabelsOf(s) == SelectSeq(s, LAMBDA c : c \in Labels)

\* the labels a block of Entry e is to hold
ExpectedLabels(e) ==
  <<"@online{", "\tauthor = \"", "\ttitle = \"", "\tyear = \"">>
  \o (IF e.URL # <<>> THEN <<"\turl = \"">> ELSE <<>>)
  \o (IF e.Visited # NoDate THEN <<"\turldate = \"">> ELSE <<>>)
  \o <<"\n\n">>

RECURSIVE BlocksOf(_, _)
\* the text s cut after each blank-line separator; cur is the part of the
\* block being read
BlocksOf(s, cur) ==
  IF s = <<>> THEN (IF cur = <<>> THEN <<>> ELSE <<cur>>)
  ELSE IF Head(s) = "\n\n"
       THEN <<Append(cur, Head(s))>> \o BlocksOf(Tail(s), <<>>)
       ELSE BlocksOf(Tail(s), Append(cur, Head(s)))

\* text s starts with text p
StartsWith(s, p) == Len(s) >= Len(p) /\ SubSeq(s, 1, Len(p)) = p

\* text s ends with text p
EndsWith(s, p) ==
  Len(s) >= Len(p) /\ SubSeq(s, Len(s) - Len(p) + 1, Len(s)) = p

\* text p occurs in text s
Occurs(s, p) ==
  \E k \in 0..(Len(s) - Len(p)) : SubSeq(s, k + 1, k + Len(p)) = p

\* blk is the block of Entry e: it opens with @online{<key>, holds the labels
\* of e in the fixed order, holds the year line of e, and is closed by '}'
\* and followed by the blank-line separator
BlockRule(blk, e) ==
  /\ StartsWith(blk, <<"@online{">> \o e.Key \o <<",\n", "\tauthor = \"">>)
  /\ LabelsOf(blk) = ExpectedLabels(e)
  /\ Occurs(blk, <<"\ttitle = \"">> \o e.Title \o <<"\",\n", "\tyear = \"">>
                 \o IntToStr(e.Year) \o <<"\",\n">>)
  /\ EndsWith(blk, <<"\",\n", "}", "\n\n">>)

\* the entries whose Write succeeded, in order
WrittenEntries == SelectSeq(handled, LAMBDA x : x.err = "nil")

\* C23: the output is one block for each entry whose Write succeeded, in
\* order; each block is an "@online{<key>," block whose field lines are
\* author, title, year (also when the year is 0), then url only if the URL
\* of the Entry is not empty, then urldate only if the Entry has a visited
\* date, closed by '}' and followed by a blank-line separator.
C23_BlockFormat ==
  /\ Len(BlocksOf(output, <<>>)) = Len(WrittenEntries)
  /\ \A k \in 1..Len(WrittenEntries) :
       BlockRule(BlocksOf(output, <<>>)[k], WrittenEntries[k].entry)

C23_Witness ==
  /\ Len(WrittenEntries) = 1
  /\ WrittenEntries[1].entry.Year = 0
  /\ WrittenEntries[1].entry.URL = <<>>
  /\ WrittenEntries[1].entry.Visited = NoDate
  /\ LabelsOf(output) =
       <<"@online{", "\tauthor = \"", "\ttitle = \"", "\tyear = \"", "\n\n">>
  /\ Occurs(output, <<"\tyear = \"", "0", "\",\n", "}", "\n\n">>)

\* C24: once an error has been received on the error channel (a divider
\* error or a write failure of writer), no further entry is written to the
\* output stream.
C24_NothingAfterError == [][errLog # <<>> => output' = output]_vars

\* the write errors the caller received from writer
WriterErrs == SelectSeq(errLog, LAMBDA e : e.from = "writer")

\* the entries whose Write failed, in order
FailedEntries == SelectSeq(handled, LAMBDA x : x.err # "nil")

\* C25: a failure of Write is never swallowed: writer sends the error of
\* every failed Write on the error channel before it handles the next entry
\* or sends the completion signal.  So the write errors received are those of
\* all the entries whose Write failed, less the last one while writer is
\* still at its send.
C25_WriteErrorSent ==
  /\ \A i \in 1..Len(WriterErrs) : WriterErrs[i].err = ErrWrite
  /\ Len(WriterErrs) =
       Len(FailedEntries) - (IF wPC = "send_err" THEN 1 ELSE 0)
  /\ wPC = "send_err" => handled[Len(handled)].err = ErrWrite
  /\ OkSent => Len(WriterErrs) = Len(FailedEntries)

C25_Witness ==
  /\ Len(handled) = 2
  /\ handled[1].err = ErrWrite
  /\ WriterErrs = <<[from |-> "writer", err |-> ErrWrite]>>
  /\ wPC = "recv"

\* the position of the i-th marker line of the input
NthMarker(inp, i) ==
  CHOOSE m \in MarkerIdx(inp) :
    Cardinality({j \in MarkerIdx(inp) : j <= m}) = i

\* the position of the first line after line m that contains a bibitem marker
\* or the end marker, one past the last line when there is none
NextBoundary(inp, m) ==
  IF \E j \in (m + 1)..Len(inp) : ContainsBibItem(inp[j]) \/ ContainsEnd(inp[j])
  THEN Min({j \in (m + 1)..Len(inp) :
              ContainsBibItem(inp[j]) \/ ContainsEnd(inp[j])})
  ELSE Len(inp) + 1

RECURSIVE TrimmedLines(_, _, _)
\* the lines lo..hi of the input, each trimmed of the white space around it,
\* one after the other with nothing between them
TrimmedLines(inp, lo, hi) ==
  IF lo > hi THEN <<>>
  ELSE TrimSpace(inp[lo]) \o TrimmedLines(inp, lo + 1, hi)

\* the body the i-th marker line of the input opens
BodyOf(inp, i) ==
  TrimmedLines(inp, NthMarker(inp, i) + 1,
               NextBoundary(inp, NthMarker(inp, i)) - 1)

\* C26: the body of the i-th raw record is the concatenation, in order and
\* with no separator, of the trimmed lines strictly between the i-th marker
\* line and the next marker line or end marker line (the end of the input
\* when there is none): no text of a line before the first marker, of a
\* marker line or of the body of a previous record is in it.
C26_Body ==
  /\ Len(emitted) <= Cardinality(MarkerIdx(input))
  /\ \A i \in 1..Len(emitted) : emitted[i].value = BodyOf(input, i)

C26_Witness ==
  /\ input = <<LKey, LBody, LTitle>>
  /\ Len(emitted) = 1
  /\ emitted[1].value = <<"a", ",", " ", "t", "t">>

\* the input makes divider fail with ErrBibEmpty or ErrBibUnclosed: it ends
\* (io.EOF) with no marker line, or with no end marker line after the first
\* marker line
DividerFails ==
  inputEnd = "EOF" /\ (MarkerIdx(input) = {} \/ Unclosed(input))

\* C27: when divider fails with ErrBibEmpty or ErrBibUnclosed, the caller's
\* single receive never yields the completion signal: stage1OutChannel is
\* closed only once the error send has completed, that is once the caller has
\* received divider's error, so the completion signal is not sent before.
C27_ErrorBeforeCompletion ==
  DividerFails =>
    /\ cPC # "got_ok"
    /\ stage1Closed => DividerErrs # <<>>
    /\ OkSent => DividerErrs # <<>>
    /\ \A i \in 1..Len(DividerErrs) :
         DividerErrs[i].err \in {ErrBibEmpty, ErrBibUnclosed}

C27_Witness ==
  /\ DividerFails
  /\ Unclosed(input)
  /\ errLog = <<[from |-> "divider", err |-> ErrBibUnclosed]>>
  /\ cPC = "got_err"
  /\ stage1Closed
  /\ OkSent

\* C28: divider closes stage1OutChannel whenever it stops producing, on
\* failure as on success: under fair scheduling, in every run the process
\* does not end (no panic, no exit of the caller), stage1OutChannel is
\* eventually closed, also when the caller's single receive took the error
\* of another stage and nobody receives divider's error.
C28_EventuallyClosed ==
  <>(stage1Closed \/ panicked # "none" \/ cPC = "exited")

\* the positions of the lines containing the end marker
EndLines(inp) == {i \in 1..Len(inp) : ContainsEnd(inp[i])}

\* the marker lines that lie before the first line containing the end marker
\* (all of them when no line contains it)
MarkersBeforeEnd(inp) ==
  {m \in MarkerIdx(inp) : \A e \in EndLines(inp) : m < e}

\* C29: divider stops at the first line containing the end marker, whether
\* it is looking for the first marker line or inside an entry: no line after
\* it starts a record, so there are never more records than marker lines
\* before it (the i-th record is the one of the i-th marker line, C26).
C29_StopsAtEndMarker ==
  Len(emitted) <= Cardinality(MarkersBeforeEnd(input))

\* C30: the only errors divider reports are ErrBibEmpty, ErrBibUnclosed and
\* the errors of the input stream; a marker line no key can be read from
\* gives a record with an empty key, never ErrSyntax and never an abort of
\* divider.
C30_OnlyBibErrors ==
  /\ \A i \in 1..Len(dErrSends) :
       dErrSends[i] \in {ErrBibEmpty, ErrBibUnclosed, ErrIO}
  /\ panicked # "divider"
  /\ \A i \in 1..Len(emitted) :
       NoMatchingBraces(input[NthMarker(input, i)]) => emitted[i].key = <<>>

----------------------------------------------------------------------------
(* Claims on the queues and the signals *)

\* the entries parser made and did not panic on, in order
MadeEntries ==
  LET made == SelectSeq(outcomes, LAMBDA r : ~r.panic)
  IN  [i \in 1..Len(made) |-> made[i].entry]

\* the entries writer has taken, in order
TakenEntries == [i \in 1..Len(handled) |-> handled[i].entry]

\* the entry parser holds at its send, if any
PendingEntry == IF pPC = "send" THEN <<pEntry>> ELSE <<>>

\* every item sent is in its queue or was taken by the next stage, in order
NothingDropped ==
  /\ emitted = SubSeq(emitted, 1, Len(outcomes)) \o stage1
  /\ MadeEntries = TakenEntries \o stage2 \o PendingEntry

\* divider is at a send on stage1OutChannel
DividerAtSend == dPC \in {"item", "last", "inner_err_item"}

\* a stage at a send on a full queue, or at a receive on an empty queue that
\* is not closed, does not move in this step
BlockedStagesWait ==
  /\ (DividerAtSend /\ Len(stage1) = ChanCap /\ ~stage1Closed) =>
       UNCHANGED <<dividerVars, emitted>>
  /\ (pPC = "send" /\ Len(stage2) = ChanCap /\ ~stage2Closed) =>
       UNCHANGED parserVars
  /\ (pPC = "recv" /\ stage1 = <<>> /\ ~stage1Closed) =>
       UNCHANGED parserVars
  /\ (wPC = "recv" /\ stage2 = <<>> /\ ~stage2Closed) =>
       UNCHANGED <<wPC, output, handled>>

\* C31: each of the two queues holds at most 10 items in every reachable
\* state; a producer whose queue is full and a consumer whose queue is empty
\* and open take no step until the queue changes; no item is dropped to make
\* room.
C31_Backpressure ==
  /\ [](Len(stage1) <= ChanCap /\ Len(stage2) <= ChanCap /\ NothingDropped)
  /\ [][BlockedStagesWait]_vars

C31_Witness ==
  /\ Len(stage1) = ChanCap
  /\ dPC = "last"
  /\ ~stage1Closed
  /\ Len(emitted) = ChanCap
  /\ wPC = "recv" /\ stage2 = <<>> /\ ~stage2Closed

\* C32: no stage sends on, or closes, a queue that is already closed (a
\* panic in Go): divider takes no step after it has closed stage1OutChannel,
\* so it closes it once and sends nothing after the close; parser closes
\* stage2OutChannel once, when every entry it made has been sent.
C32_NoUseAfterClose ==
  /\ ~(panicked = "divider" /\ stage1Closed)
  /\ ~(panicked = "parser" /\ stage2Closed)
  /\ stage1Closed => dPC = "done"
  /\ stage2Closed =>
       /\ pPC = "done"
       /\ MadeEntries = TakenEntries \o stage2

C32_Witness ==
  /\ stage1Closed
  /\ stage2Closed
  /\ dErrSends = <<ErrBibUnclosed>>
  /\ Len(emitted) = 2
  /\ Len(MadeEntries) = 2

\* the caller has received the completion signal (and not yet exited)
CallerHasOk == cPC \in {"got_ok", "flushed_ok"}

\* C33: the completion signal is sent at most once, and the send never
\* blocks writer: when writer reaches it the one slot of okChannel is free,
\* whether or not the caller is still receiving.  Before the send no signal
\* is in the channel or with the caller; after it there is exactly one.
C33_SignalOnce ==
  /\ okCount <= OkCap
  /\ ~OkSent => okCount = 0 /\ ~CallerHasOk
  /\ (wPC = "recv" /\ RangeDone(stage2, stage2Closed)) => okCount < OkCap
  /\ (OkSent /\ cPC # "exited") =>
       okCount + (IF CallerHasOk THEN 1 ELSE 0) = 1

C33_Witness ==
  /\ OkSent
  /\ okCount = 1
  /\ cPC = "got_err"
  /\ errLog = <<[from |-> "writer", err |-> ErrWrite]>>

RECURSIVE BlocksUpTo(_)
\* the rendered blocks of the first j raw records, one after the other
BlocksUpTo(j) ==
  IF j = 0 THEN <<>>
  ELSE BlocksUpTo(j - 1) \o Block(ParseItem(emitted[j], config).entry)

Flushed == cPC \in {"flushed_ok", "flushed_err"}

\* C35: only writer accesses the output stream while the pipeline runs, and
\* once the caller, after its receive on OkChan or ErrChan, has flushed and
\* closed the output, writer calls Write no more: on the error path as on
\* the success path.
C35_NoWriteAfterFlush ==
  [][Flushed => (handled' = handled /\ output' = output)]_vars

\* the outcome parser has just recorded is the one of the record at the same
\* position, parsed on its own with the Config
LastOutcomeIsOwn ==
  outcomes # <<>> =>
    outcomes[Len(outcomes)] = ParseItem(emitted[Len(outcomes)], config)

----------------------------------------------------------------------------
(* Claims on the indices of the parser *)

\* the Entry e has the authors toks[0..k] and the title toks[k+1] for some
\* lastAuthorIndex k with 0 <= k and k + 1 <= n - 1 (0-based, as in the code)
IndicesInRange(toks, e) ==
  \E k \in 0..(Len(toks) - 2) :
    /\ e.Authors = Trimmed(toks, 1, k + 1)
    /\ e.Title = TrimSpace(toks[k + 2])

\* the author rule for the outcome r of an item with tokens toks
AuthorsRule(toks, r) ==
  Len(toks) >= 2 =>
    /\ ~r.panic
    /\ Len(r.entry.Authors) >= 1
    /\ Len(toks) >= 4 => IndicesInRange(toks, r.entry)

\* C37: for every body of n >= 2 tokens, with or without a URL, a year found
\* or not, the author list of the Entry is not empty (so parser does not
\* panic on it); for n >= 4 the authors are the tokens 0..lastAuthorIndex and
\* the title the token lastAuthorIndex + 1, with 0 <= lastAuthorIndex and
\* lastAuthorIndex + 1 <= n - 1: no token access is out of range.
C37_AuthorsNonEmpty ==
  \A i \in 1..Len(outcomes) : AuthorsRule(RawTokens(i), outcomes[i])

C37_Witness ==
  /\ Len(outcomes) = 1
  /\ RawTokens(1) = <<TAuthor, TTitle, TYear, <<" ", URLToken, "u", "}">>>>
  /\ RawURL(1) = <<"u">>
  /\ ~outcomes[1].panic
  /\ EntryOf(1).Authors = <<<<"a">>>>
  /\ EntryOf(1).Title = <<"t">>
  /\ EntryOf(1).Year = 2011

\* the position (0-based) of the token the title of Entry e was taken from,
\* for n >= 3: the token after the last author
TitleIndexOf(e) == Len(e.Authors)

\* the position (0-based) of the token the year was read from, when one was:
\* the last token, or else the second-to-last
YearIndexOf(toks) ==
  IF extractYear(toks[Len(toks)]) # 0 THEN Len(toks) - 1 ELSE Len(toks) - 2

\* the title rule for an item with tokens toks whose Entry is e
TitleBeforeYear(toks, e) ==
  (Len(toks) >= 3 /\ ExtractedYear(toks) # 0) =>
    /\ TitleIndexOf(e) # YearIndexOf(toks)
    /\ TitleIndexOf(e) = YearIndexOf(toks) - 1

\* C38: whenever parser reads a year from a token of a body of n >= 3
\* tokens, the title is taken from another token: the title index is never
\* the index of the year token, and the title is the token immediately
\* before the year token.
C38_TitleBeforeYear ==
  \A i \in 1..Len(outcomes) : TitleBeforeYear(RawTokens(i), EntryOf(i))

====
